---- MODULE Spec2Model ----
(***************************************************************************)
(* Model of the arithmetic tutorial: the plain throwing functions and the  *)
(* same functions lifted into Effect values (1-example.effect.ts).  An     *)
(* Effect value is a data structure (Succeed / Fail / CatchAll / CatchTag) *)
(* that is built by one call and interpreted by a later, separate run      *)
(* (Effect.runSync or Effect.runPromise).                                  *)
(*                                                                         *)
(* JavaScript values are records: a number is an exact fraction            *)
(* [num, den] in lowest terms with den > 0, a string is [str], an          *)
(* ErrorDivideByZero instance is the record of its four fields.            *)
(***************************************************************************)
EXTENDS Integers, Sequences, FiniteSets

\* ---------------------------------------------------------------- bounds
MaxNum == 3
MaxRuns == 2
MaxSyncSteps == 2

\* ----------------------------------------------------------------- state
VARIABLES
    a, b,           \* the two operands every call of this run is made with
    pc,             \* "idle", "built", "exec", "exited", "settled", "chained", "done"
    fn,             \* the builder that made eff
    wrap,           \* what eff was piped through
    eff,            \* the Effect value held by the script
    mode,           \* "sync" (runSync) or "promise" (runPromise)
    cur,            \* the Effect the fiber is interpreting
    stack,          \* the fiber's stack of catch frames
    exit,           \* the fiber's Exit: Success or Failure
    result,         \* what runSync gave its caller: returned or thrown
    outcomes,       \* how many Exits this execution has produced
    handlerArgs,    \* the arguments of the handler calls of this execution
    history,        \* one entry per finished execution of eff
    evaluated,      \* source expressions evaluated for eff so far, with the phase
    promise,        \* the promise runPromise returned
    settles,        \* how many times that promise was settled
    chained,        \* the promise .then(...) returned
    syncRemaining,  \* top-level statements still to run after runPromise
    thenArgs,       \* the arguments of the .then callback's calls
    catchArgs,      \* the arguments of the .catch callback's calls
    plainSeen,      \* the last plain call and its outcome
    effSeen         \* the last finished unwrapped division Effect and its Exit

vars == <<a, b, pc, fn, wrap, eff, mode, cur, stack, exit, result, outcomes,
          handlerArgs, history, evaluated, promise, settles, chained,
          syncRemaining, thenArgs, catchArgs, plainSeen, effSeen>>

inputVars == <<a, b>>
progVars == <<fn, wrap, eff>>
fiberVars == <<cur, stack, exit, outcomes, handlerArgs>>
promiseVars == <<promise, settles, chained, syncRemaining, thenArgs, catchArgs>>
seenVars == <<plainSeen, effSeen>>

\* ------------------------------------------------------------- JS values
Abs(n) == IF n < 0 THEN -n ELSE n

RECURSIVE GCD(_, _)
GCD(m, n) == IF n = 0 THEN m ELSE GCD(n, m % n)

\* a JavaScript number holding the integer n
Num(n) == [num |-> n, den |-> 1]

\* the JavaScript number n / d for d # 0, as a fraction in lowest terms
Quot(n, d) ==
    LET g == GCD(Abs(n), Abs(d))
        s == IF d < 0 THEN -1 ELSE 1
    IN  [num |-> (s * n) \div g, den |-> (s * d) \div g]

JsString(s) == [str |-> s]

None == [kind |-> "none"]

\* ------------------------------------------------- the Effect constructors
Succeed(v) == [op |-> "Succeed", value |-> v]
Fail(e) == [op |-> "Fail", error |-> e]
CatchAll(self, h) == [op |-> "CatchAll", self |-> self, handler |-> h]
CatchTag(self, t, h) == [op |-> "CatchTag", self |-> self, tag |-> t, handler |-> h]

\* ---------------------------------------------- 1-example.effect.ts builders
add(x, y) == Succeed(Num(x + y))

\* subtract with its operands exchanged
subtractSwapped(x, y) == Succeed(Num(y - x))

subtract(x, y) == Succeed(Num(x - y))

multiply(x, y) == Succeed(Num(x * y))

\* divide that multiplies where it should divide
divideAsProduct(x, y) ==
    IF y = 0 THEN Fail(JsString("Cannot divide by zero"))
    ELSE Succeed(Num(x * y))

divide(x, y) ==
    IF y = 0 THEN Fail(JsString("Cannot divide by zero"))
    ELSE Succeed(Quot(x, y))

\* the error constructor with its two fields exchanged
ErrorDivideByZeroSwapped(dividend, divisor) ==
    [_tag |-> "ErrorDivideByZero", message |-> "Cannot divide by zero",
     dividend |-> Num(divisor), divisor |-> Num(dividend)]

ErrorDivideByZero(dividend, divisor) ==
    [_tag |-> "ErrorDivideByZero", message |-> "Cannot divide by zero",
     dividend |-> Num(dividend), divisor |-> Num(divisor)]

\* divideWithCustomError with a falsy test on both operands
divideWithCustomErrorFalsy(x, y) ==
    IF y = 0 \/ x = 0
    THEN Fail([_tag |-> "ErrorDivideByZero", message |-> "Cannot divide by zero",
               dividend |-> Num(x), divisor |-> Num(y)])
    ELSE Succeed(Quot(x, y))

divideWithCustomError(x, y) ==
    IF y = 0 THEN Fail(ErrorDivideByZero(x, y))
    ELSE Succeed(Quot(x, y))

\* a handler that counts in a variable it closes over
safeDivideHandlerCounting(error) == Succeed(Num(Len(history)))

\* the handler passed to catchAll in safeDivide
safeDivideHandler(error) == Succeed(Num(0))

\* the handler passed to catchTag in handleSpecificError
handleSpecificErrorHandler(error) == Succeed(Num(-1))

\* ------------------------------------------------ the plain functions
Returned(v) == [kind |-> "returned", value |-> v]
Thrown(e) == [kind |-> "thrown", value |-> e]

\* new Error(message) and the plain file's ErrorDivideByZero subclass
JsError(name, message) == [name |-> name, message |-> message]

plainAdd(x, y) == Returned(Num(x + y))

plainSubtract(x, y) == Returned(Num(x - y))

plainMultiply(x, y) == Returned(Num(x * y))

plainDivide(x, y) ==
    IF y = 0 THEN Thrown(JsError("Error", "Cannot divide by zero"))
    ELSE Returned(Quot(x, y))

plainDivideWithCustomError(x, y) ==
    IF y = 0 THEN Thrown(JsError("ErrorDivideByZero", "Cannot divide by zero"))
    ELSE Returned(Quot(x, y))

\* ------------------------------------------------------------ the inputs
Range == (-MaxNum)..MaxNum

\* the argument pairs the two scripts call the functions with
ScriptInputs ==
    {<<1, 2>>, <<5, 2>>, <<3, 4>>, <<6, 3>>, <<10, 2>>, <<6, 0>>, <<10, 0>>, <<12, 4>>}

Inputs == (Range \X Range) \cup ScriptInputs

FnNames == {"add", "subtract", "multiply", "divide", "divideWithCustomError"}

Divisions == {"divide", "divideWithCustomError"}

Tags == {"ErrorDivideByZero", "OtherError"}

\* what a built computation is piped through: nothing, the catchAll of
\* safeDivide, or the catchTag of handleSpecificError with some tag
Wraps ==
    {[op |-> "none"], [op |-> "CatchAll", handler |-> "safeDivideHandler"]}
    \cup {[op |-> "CatchTag", tag |-> t, handler |-> "handleSpecificErrorHandler"] : t \in Tags}

Build(f, x, y) ==
    CASE f = "add" -> add(x, y)
      [] f = "subtract" -> subtract(x, y)
      [] f = "multiply" -> multiply(x, y)
      [] f = "divide" -> divide(x, y)
      [] f = "divideWithCustomError" -> divideWithCustomError(x, y)

Pipe(e, w) ==
    CASE w.op = "none" -> e
      [] w.op = "CatchAll" -> CatchAll(e, w.handler)
      [] w.op = "CatchTag" -> CatchTag(e, w.tag, w.handler)

CallPlainFn(f, x, y) ==
    CASE f = "add" -> plainAdd(x, y)
      [] f = "subtract" -> plainSubtract(x, y)
      [] f = "multiply" -> plainMultiply(x, y)
      [] f = "divide" -> plainDivide(x, y)
      [] f = "divideWithCustomError" -> plainDivideWithCustomError(x, y)

\* the source expressions a builder call evaluates in its own body: the
\* argument of Effect.succeed is computed before Effect.succeed is called,
\* and the zero test chooses between Effect.fail and Effect.succeed
BuilderEvaluates(f, x, y) ==
    CASE f = "add" -> {"a + b"}
      [] f = "subtract" -> {"a - b"}
      [] f = "multiply" -> {"a * b"}
      [] f \in Divisions -> {"b === 0"} \cup (IF y = 0 THEN {} ELSE {"a / b"})

ApplyHandler(h, error) ==
    CASE h = "safeDivideHandler" -> safeDivideHandler(error)
      [] h = "handleSpecificErrorHandler" -> handleSpecificErrorHandler(error)

\* catchAll frames that let every failure pass
MatchesTagOnly(fr, error) ==
    /\ fr.op = "CatchTag"
    /\ "_tag" \in DOMAIN error
    /\ error._tag = fr.tag

\* catchTag frames that take a tagged failure of any tag
MatchesAnyTag(fr, error) ==
    \/ fr.op = "CatchAll"
    \/ /\ fr.op = "CatchTag"
       /\ "_tag" \in DOMAIN error

\* does the catch frame fr take the failure error?
Matches(fr, error) ==
    \/ fr.op = "CatchAll"
    \/ /\ fr.op = "CatchTag"
       /\ "_tag" \in DOMAIN error
       /\ error._tag = fr.tag

Pending == [state |-> "pending"]

Init ==
    /\ \E ab \in Inputs : a = ab[1] /\ b = ab[2]
    /\ pc = "idle"
    /\ fn = "none"
    /\ wrap = [op |-> "none"]
    /\ eff = None
    /\ mode = "none"
    /\ cur = None
    /\ stack = <<>>
    /\ exit = None
    /\ result = None
    /\ outcomes = 0
    /\ handlerArgs = <<>>
    /\ history = <<>>
    /\ evaluated = {}
    /\ promise = None
    /\ settles = 0
    /\ chained = None
    /\ syncRemaining = 0
    /\ thenArgs = <<>>
    /\ catchArgs = <<>>
    /\ plainSeen = None
    /\ effSeen = None

\* ------------------------------------------------------------- the script
\* A call of one of the five builders, piped as safeDivide and
\* handleSpecificError pipe theirs.  The builder's body runs here.
Construct(f, w) ==
    /\ pc = "idle"
    /\ w.op # "none" => f = "divideWithCustomError"
    /\ fn' = f
    /\ wrap' = w
    /\ eff' = Pipe(Build(f, a, b), w)
    /\ evaluated' = evaluated \cup
          {[expr |-> x, during |-> "construct"] : x \in BuilderEvaluates(f, a, b)}
    /\ history' = <<>>
    /\ pc' = "built"
    /\ UNCHANGED <<inputVars, mode, fiberVars, result, promiseVars, seenVars>>

\* A call of one of the plain functions of the first file.
CallPlain(f) ==
    /\ pc = "idle"
    /\ plainSeen' = [fn |-> f, outcome |-> CallPlainFn(f, a, b)]
    /\ UNCHANGED <<inputVars, pc, progVars, mode, fiberVars, result, history,
                   evaluated, promiseVars, effSeen>>

CanRun ==
    \/ pc = "built"
    \/ pc = "done" /\ Len(history) < MaxRuns

StartFiber ==
    /\ cur' = eff
    /\ stack' = <<>>
    /\ exit' = None
    /\ outcomes' = 0
    /\ handlerArgs' = <<>>
    /\ result' = None
    /\ settles' = 0
    /\ chained' = None
    /\ thenArgs' = <<>>
    /\ catchArgs' = <<>>
    /\ pc' = "exec"

\* Effect.runSync(eff)
RunSync ==
    /\ CanRun
    /\ mode' = "sync"
    /\ StartFiber
    /\ promise' = None
    /\ syncRemaining' = 0
    /\ UNCHANGED <<inputVars, progVars, history, evaluated, seenVars>>

\* Effect.runPromise(eff).then(...).catch(...), with more top-level
\* statements of the script still to run after it
RunPromise ==
    /\ CanRun
    /\ mode' = "promise"
    /\ StartFiber
    /\ promise' = Pending
    /\ syncRemaining' = MaxSyncSteps
    /\ UNCHANGED <<inputVars, progVars, history, evaluated, seenVars>>

\* -------------------------------------------------------------- the fiber
Success(v) == [kind |-> "Success", value |-> v]
Failure(e) == [kind |-> "Failure", value |-> e]

Top == stack[Len(stack)]
Pop == SubSeq(stack, 1, Len(stack) - 1)

Frame(e) ==
    IF e.op = "CatchAll" THEN [op |-> "CatchAll", handler |-> e.handler]
    ELSE [op |-> "CatchTag", tag |-> e.tag, handler |-> e.handler]

fiberRest == <<inputVars, progVars, mode, result, history, promiseVars, seenVars>>

\* catchAll / catchTag: remember the handler, interpret the wrapped Effect
EnterCatch ==
    /\ pc = "exec"
    /\ cur.op \in {"CatchAll", "CatchTag"}
    /\ stack' = Append(stack, Frame(cur))
    /\ cur' = cur.self
    /\ UNCHANGED <<pc, exit, outcomes, handlerArgs, evaluated, fiberRest>>

\* a success passes a catch frame without calling its handler
SuccessUnwind ==
    /\ pc = "exec"
    /\ cur.op = "Succeed"
    /\ stack # <<>>
    /\ stack' = Pop
    /\ UNCHANGED <<pc, cur, exit, outcomes, handlerArgs, evaluated, fiberRest>>

SuccessExit ==
    /\ pc = "exec"
    /\ cur.op = "Succeed"
    /\ stack = <<>>
    /\ exit' = Success(cur.value)
    /\ outcomes' = outcomes + 1
    /\ pc' = "exited"
    /\ UNCHANGED <<cur, stack, handlerArgs, evaluated, fiberRest>>

\* a failure reaches a frame that takes it: the handler is called with the
\* failure and the Effect it returns is interpreted in its place
FailureHandle ==
    /\ pc = "exec"
    /\ cur.op = "Fail"
    /\ stack # <<>>
    /\ Matches(Top, cur.error)
    /\ handlerArgs' = Append(handlerArgs, cur.error)
    /\ evaluated' = evaluated \cup {[expr |-> "handler", during |-> "run"]}
    /\ cur' = ApplyHandler(Top.handler, cur.error)
    /\ stack' = Pop
    /\ UNCHANGED <<pc, exit, outcomes, fiberRest>>

\* a failure passes a catchTag frame of another tag
FailurePropagate ==
    /\ pc = "exec"
    /\ cur.op = "Fail"
    /\ stack # <<>>
    /\ ~Matches(Top, cur.error)
    /\ stack' = Pop
    /\ UNCHANGED <<pc, cur, exit, outcomes, handlerArgs, evaluated, fiberRest>>

FailureExit ==
    /\ pc = "exec"
    /\ cur.op = "Fail"
    /\ stack = <<>>
    /\ exit' = Failure(cur.error)
    /\ outcomes' = outcomes + 1
    /\ pc' = "exited"
    /\ UNCHANGED <<cur, stack, handlerArgs, evaluated, fiberRest>>

\* ------------------------------------------------- the execution boundary
Entry == [mode |-> mode, exit |-> exit, handlerArgs |-> handlerArgs]

\* runSync hands a Success to its caller
RunSyncReturn ==
    /\ pc = "exited"
    /\ mode = "sync"
    /\ exit.kind = "Success"
    /\ result' = Returned(exit.value)
    /\ history' = Append(history, Entry)
    /\ pc' = "done"
    /\ UNCHANGED <<inputVars, progVars, mode, fiberVars, evaluated, promiseVars, seenVars>>

\* runSync that hands a failure to its caller as a value
RunSyncSwallow ==
    /\ pc = "exited"
    /\ mode = "sync"
    /\ exit.kind = "Failure"
    /\ result' = Returned(exit.value)
    /\ history' = Append(history, Entry)
    /\ pc' = "done"
    /\ UNCHANGED <<inputVars, progVars, mode, fiberVars, evaluated, promiseVars, seenVars>>

\* runSync throws on a Failure; the fault carries the failure
RunSyncThrow ==
    /\ pc = "exited"
    /\ mode = "sync"
    /\ exit.kind = "Failure"
    /\ result' = Thrown(exit.value)
    /\ history' = Append(history, Entry)
    /\ pc' = "done"
    /\ UNCHANGED <<inputVars, progVars, mode, fiberVars, evaluated, promiseVars, seenVars>>

\* runPromise settles its promise from the Exit
Settle ==
    /\ pc = "exited"
    /\ mode = "promise"
    /\ promise.state = "pending"
    /\ promise' = [state |-> IF exit.kind = "Success" THEN "fulfilled" ELSE "rejected",
                   value |-> exit.value]
    /\ settles' = settles + 1
    /\ pc' = "settled"
    /\ UNCHANGED <<inputVars, progVars, mode, fiberVars, result, history, evaluated,
                   chained, syncRemaining, thenArgs, catchArgs, seenVars>>

\* one more top-level statement after the runPromise statement
SyncStep ==
    /\ pc = "settled"
    /\ syncRemaining > 0
    /\ syncRemaining' = syncRemaining - 1
    /\ UNCHANGED <<inputVars, pc, progVars, mode, fiberVars, result, history, evaluated,
                   promise, settles, chained, thenArgs, catchArgs, seenVars>>

\* reactions that run at once, inside the statement that settled the promise
MicrotaskEager == TRUE

\* a promise reaction runs as a microtask, when the call stack is empty
MicrotaskReady == syncRemaining = 0

Undefined == [undefined |-> TRUE]

\* the reaction of .then(callback)
ThenReaction ==
    /\ pc = "settled"
    /\ MicrotaskReady
    /\ IF promise.state = "fulfilled"
       THEN /\ thenArgs' = Append(thenArgs, promise.value)
            /\ chained' = [state |-> "fulfilled", value |-> Undefined]
       ELSE /\ thenArgs' = thenArgs
            /\ chained' = promise
    /\ pc' = "chained"
    /\ UNCHANGED <<inputVars, progVars, mode, fiberVars, result, history, evaluated,
                   promise, settles, syncRemaining, catchArgs, seenVars>>

\* the reaction of .catch(callback) on the promise .then returned
CatchReaction ==
    /\ pc = "chained"
    /\ MicrotaskReady
    /\ catchArgs' = IF chained.state = "rejected"
                    THEN Append(catchArgs, chained.value) ELSE catchArgs
    /\ history' = Append(history, Entry)
    /\ pc' = "done"
    /\ UNCHANGED <<inputVars, progVars, mode, fiberVars, result, evaluated,
                   promise, settles, chained, syncRemaining, thenArgs, seenVars>>

\* the script is through with eff and goes on to its next statement
Retire ==
    /\ pc = "done"
    /\ effSeen' = IF wrap.op = "none" /\ fn \in Divisions
                  THEN [fn |-> fn, exit |-> exit] ELSE effSeen
    /\ pc' = "idle"
    /\ fn' = "none"
    /\ wrap' = [op |-> "none"]
    /\ eff' = None
    /\ mode' = "none"
    /\ cur' = None
    /\ stack' = <<>>
    /\ exit' = None
    /\ result' = None
    /\ outcomes' = 0
    /\ handlerArgs' = <<>>
    /\ history' = <<>>
    /\ promise' = None
    /\ settles' = 0
    /\ chained' = None
    /\ syncRemaining' = 0
    /\ thenArgs' = <<>>
    /\ catchArgs' = <<>>
    /\ evaluated' = {}
    /\ UNCHANGED <<inputVars, plainSeen>>

Step ==
    \/ EnterCatch
    \/ SuccessUnwind
    \/ SuccessExit
    \/ FailureHandle
    \/ FailurePropagate
    \/ FailureExit

Next ==
    \/ \E f \in FnNames, w \in Wraps : Construct(f, w)
    \/ \E f \in FnNames : CallPlain(f)
    \/ RunSync
    \/ RunPromise
    \/ Step
    \/ RunSyncReturn
    \/ RunSyncThrow
    \/ Settle
    \/ SyncStep
    \/ ThenReaction
    \/ CatchReaction
    \/ Retire

Spec == Init /\ [][Next]_vars

\* the fiber, the event loop and the script's top level never stall
FairSpec ==
    /\ Spec
    /\ WF_vars(Step)
    /\ WF_vars(RunSyncReturn)
    /\ WF_vars(RunSyncThrow)
    /\ WF_vars(Settle)
    /\ WF_vars(SyncStep)
    /\ WF_vars(ThenReaction)
    /\ WF_vars(CatchReaction)

\* ------------------------------------------------------------ properties
\* the fiber of the current execution has produced its Exit
Exited == pc \in {"exited", "settled", "chained", "done"}

Unwrapped == wrap.op = "none"

\* v is the number n / d: the same ratio, in lowest terms, den positive
IsQuotient(v, n, d) ==
    /\ DOMAIN v = {"num", "den"}
    /\ v.den > 0
    /\ v.num * d = n * v.den
    /\ GCD(Abs(v.num), v.den) = 1

IsInteger(v, n) == DOMAIN v = {"num", "den"} /\ v.num = n /\ v.den = 1

\* the failure the wrapped computation of a piped eff was built with
OriginalFails == eff.self.op = "Fail"

\* C1: with b = 0 an execution of divide(a, b) or divideWithCustomError(a, b)
\* never returns a value; divide fails with the message "Cannot divide by
\* zero", divideWithCustomError with an error tagged "ErrorDivideByZero"
\* whose dividend is a and whose divisor is b.
C1_DivideByZeroFails ==
    (b = 0 /\ fn \in Divisions /\ Unwrapped) =>
        /\ result.kind # "returned"
        /\ thenArgs = <<>>
        /\ Exited =>
            /\ exit.kind = "Failure"
            /\ fn = "divide" => exit.value = [str |-> "Cannot divide by zero"]
            /\ fn = "divideWithCustomError" =>
                /\ "_tag" \in DOMAIN exit.value
                /\ exit.value._tag = "ErrorDivideByZero"
                /\ IsInteger(exit.value.dividend, a)
                /\ IsInteger(exit.value.divisor, b)

C1_Witness ==
    /\ a = 6 /\ b = 0
    /\ fn = "divideWithCustomError" /\ Unwrapped
    /\ pc = "done" /\ mode = "sync"
    /\ result.kind = "thrown"
    /\ "fn" \in DOMAIN effSeen /\ effSeen.fn = "divide"
    /\ effSeen.exit.kind = "Failure"

\* C2: with b # 0, runSync of divide(a, b) and of divideWithCustomError(a, b)
\* returns exactly a / b and does not throw.
C2_QuotientReturned ==
    (b # 0 /\ fn \in Divisions /\ Unwrapped /\ mode = "sync" /\ pc = "done") =>
        /\ result.kind = "returned"
        /\ IsQuotient(result.value, a, b)

C2_Witness ==
    /\ a = 12 /\ b = 4
    /\ fn = "divideWithCustomError" /\ Unwrapped
    /\ mode = "sync" /\ pc = "done"
    /\ result = [kind |-> "returned", value |-> [num |-> 3, den |-> 1]]

\* C3: catchAll over a failing computation calls its handler exactly once per
\* execution, with the original failure, and the result is what the handler's
\* replacement yields (0 for safeDivide); over a succeeding computation the
\* handler is not called and the result is the original success value.  The
\* handler is never called while the computation is being constructed.
C3_CatchAll ==
    wrap.op = "CatchAll" =>
        /\ Len(handlerArgs) <= 1
        /\ pc = "built" => [expr |-> "handler", during |-> "run"] \notin evaluated
        /\ \A e \in evaluated : e.expr = "handler" => e.during = "run"
        /\ Exited =>
            IF OriginalFails
            THEN /\ handlerArgs = <<eff.self.error>>
                 /\ exit = [kind |-> "Success", value |-> [num |-> 0, den |-> 1]]
            ELSE /\ handlerArgs = <<>>
                 /\ exit = [kind |-> "Success", value |-> eff.self.value]

C3_Witness ==
    /\ a = 6 /\ b = 0
    /\ wrap.op = "CatchAll"
    /\ mode = "sync" /\ pc = "done"
    /\ Len(handlerArgs) = 1
    /\ result = [kind |-> "returned", value |-> [num |-> 0, den |-> 1]]

\* C4: catchTag calls its handler if and only if the computation fails with a
\* failure whose _tag equals the tag; then the result is what the handler's
\* replacement yields (-1 for handleSpecificError).  With another tag the
\* handler is not called and the original failure is the failure of the whole.
C4_CatchTag ==
    wrap.op = "CatchTag" =>
        LET matching == /\ OriginalFails
                        /\ "_tag" \in DOMAIN eff.self.error
                        /\ eff.self.error._tag = wrap.tag
        IN  /\ Len(handlerArgs) <= 1
            /\ handlerArgs # <<>> => matching
            /\ Exited =>
                /\ matching =>
                    /\ handlerArgs = <<eff.self.error>>
                    /\ exit = [kind |-> "Success", value |-> [num |-> -1, den |-> 1]]
                /\ (OriginalFails /\ ~matching) =>
                    /\ handlerArgs = <<>>
                    /\ exit = [kind |-> "Failure", value |-> eff.self.error]
                /\ ~OriginalFails =>
                    /\ handlerArgs = <<>>
                    /\ exit = [kind |-> "Success", value |-> eff.self.value]

C4_Witness ==
    /\ a = 10 /\ b = 0
    /\ wrap.op = "CatchTag" /\ wrap.tag = "ErrorDivideByZero"
    /\ mode = "sync" /\ pc = "done"
    /\ Len(handlerArgs) = 1
    /\ result = [kind |-> "returned", value |-> [num |-> -1, den |-> 1]]

\* a failure of the built computation that no handler of eff takes
Unrecovered ==
    \/ eff.op = "Fail"
    \/ /\ eff.op = "CatchTag"
       /\ eff.self.op = "Fail"
       /\ ~("_tag" \in DOMAIN eff.self.error /\ eff.self.error._tag = eff.tag)

\* C5: an execution through runSync produces exactly one outcome: it returns
\* the success value iff the computation succeeds, and throws a fault carrying
\* the failure iff the computation fails with a failure no handler recovered;
\* a computation whose failures were all recovered never throws.
C5_RunSyncOutcome ==
    mode = "sync" =>
        /\ outcomes <= 1
        /\ pc # "done" => result.kind = "none"
        /\ pc = "done" =>
            /\ outcomes = 1
            /\ result.kind \in {"returned", "thrown"}
            /\ result.kind = "returned" <=> exit.kind = "Success"
            /\ result.kind = "thrown" <=> exit.kind = "Failure"
            /\ result.value = exit.value
            /\ result.kind = "thrown" <=> Unrecovered
            /\ (wrap.op = "CatchAll" \/ (wrap.op = "CatchTag" /\ wrap.tag = "ErrorDivideByZero"))
                   => result.kind = "returned"

C5_Witness ==
    /\ mode = "sync" /\ pc = "done"
    /\ b = 0
    /\ wrap.op = "CatchTag" /\ wrap.tag = "OtherError"
    /\ result.kind = "thrown"
    /\ "_tag" \in DOMAIN result.value

\* how many times the two callbacks of the promise chain have run
Delivered == Len(thenArgs) + Len(catchArgs)

C6_Safe ==
    mode = "promise" =>
        /\ settles <= 1
        /\ pc \in {"exec", "exited"} => promise.state = "pending"
        /\ Exited /\ pc # "exited" =>
            /\ settles = 1
            /\ promise.state = IF exit.kind = "Success" THEN "fulfilled" ELSE "rejected"
            /\ promise.value = exit.value
        /\ Delivered <= 1
        /\ Delivered > 0 => syncRemaining = 0 /\ settles = 1
        /\ thenArgs # <<>> => exit.kind = "Success" /\ thenArgs = <<exit.value>>
        /\ catchArgs # <<>> => exit.kind = "Failure" /\ catchArgs = <<exit.value>>
        /\ pc = "done" => Delivered = 1

\* C6: an execution through runPromise runs to completion and settles its
\* promise exactly once, fulfilled with the success value or rejected with the
\* failure; the then/catch callback runs only after the top-level code that
\* follows the runPromise statement has finished, and exactly one of the two
\* callbacks runs.
C6_RunPromise ==
    /\ []C6_Safe
    /\ (mode = "promise" /\ pc = "exec") ~> (mode = "promise" /\ pc = "done" /\ Delivered = 1)

C6_Witness ==
    /\ a = 10 /\ b = 2
    /\ fn = "divide" /\ Unwrapped
    /\ mode = "promise" /\ pc = "done"
    /\ thenArgs = <<[num |-> 5, den |-> 1]>>
    /\ catchArgs = <<>>

\* C7: constructing a computation evaluates nothing: the arithmetic, the zero
\* check and the handlers are evaluated only during runSync or runPromise.
C7_ConstructionEvaluatesNothing ==
    \A e \in evaluated : e.during = "run"

\* C8: every runSync execution of the same computation value has the same
\* outcome, and a handler that runs in one of them runs once in each.
C8_Idempotent ==
    \A i, j \in 1..Len(history) :
        (history[i].mode = "sync" /\ history[j].mode = "sync") =>
            /\ history[i].exit = history[j].exit
            /\ history[i].handlerArgs = history[j].handlerArgs
            /\ Len(history[i].handlerArgs) <= 1

C8_Witness ==
    /\ Len(history) = 2
    /\ history[1].mode = "sync" /\ history[2].mode = "sync"
    /\ wrap.op = "CatchAll" /\ b = 0
    /\ Len(history[2].handlerArgs) = 1
    /\ history[2].exit.kind = "Success"

\* C9: executing add(a, b), subtract(a, b) and multiply(a, b) never fails and
\* yields a + b, a - b and a * b.
C9_Arithmetic ==
    (fn \in {"add", "subtract", "multiply"} /\ Exited) =>
        /\ exit.kind = "Success"
        /\ fn = "add" => IsInteger(exit.value, a + b)
        /\ fn = "subtract" => IsInteger(exit.value, a - b)
        /\ fn = "multiply" => IsInteger(exit.value, a * b)
        /\ (mode = "sync" /\ pc = "done") =>
               result = [kind |-> "returned", value |-> exit.value]

C9_Witness ==
    /\ a = 5 /\ b = 2
    /\ fn = "subtract"
    /\ mode = "sync" /\ pc = "done"
    /\ result = [kind |-> "returned", value |-> [num |-> 3, den |-> 1]]

\* C10: divide and divideWithCustomError succeed on the same inputs with the
\* same value and fail on the same inputs (b = 0); each agrees with its plain
\* counterpart, which returns v exactly when the Effect succeeds with v and
\* throws exactly when the Effect fails.
C10_VariantsAgree ==
    (fn \in Divisions /\ Unwrapped /\ Exited) =>
        /\ exit.kind = "Failure" <=> b = 0
        /\ ("fn" \in DOMAIN effSeen /\ effSeen.fn # fn) =>
            /\ effSeen.exit.kind = exit.kind
            /\ exit.kind = "Success" => effSeen.exit.value = exit.value
        /\ ("fn" \in DOMAIN plainSeen /\ plainSeen.fn = fn) =>
            /\ plainSeen.outcome.kind = "returned" <=> exit.kind = "Success"
            /\ plainSeen.outcome.kind = "thrown" <=> exit.kind = "Failure"
            /\ exit.kind = "Success" => plainSeen.outcome.value = exit.value

C10_Witness ==
    /\ fn = "divideWithCustomError" /\ Unwrapped /\ pc = "done"
    /\ a = 6 /\ b = 3
    /\ "fn" \in DOMAIN effSeen /\ effSeen.fn = "divide"
    /\ "fn" \in DOMAIN plainSeen /\ plainSeen.fn = "divideWithCustomError"
    /\ exit = [kind |-> "Success", value |-> [num |-> 2, den |-> 1]]

====
